---------------------------- MODULE Spec2Model ----------------------------
(***************************************************************************)
(* A model of redis-rust.  The command engine (src/internal/cmd.rs): the   *)
(* keyed store of CommandExecutor, its operations set / rpush / lpush /    *)
(* get / llen / lrange, and the dispatcher visit_array that interprets a   *)
(* parsed command array against the store.  The codec                      *)
(* (src/internal/resp.rs): parse and Display of RespValue.  The server     *)
(* (src/main.rs): the loop of handle_client on one connection.             *)
(*                                                                         *)
(* Byte strings (Vec<u8>) and Rust Strings are sequences of byte values;   *)
(* a Rust String is the UTF-8 encoding of its text.  The index i of a Rust *)
(* slice is the index i + 1 of the sequence that models it.                *)
(***************************************************************************)
EXTENDS Integers, Sequences, FiniteSets, TLC

(***************************************************************************)
(* Bounds of the model.                                                    *)
(***************************************************************************)
\* Longest list the model lets a push produce, under Spec and under SpecRange.
MaxLen == 3
MaxRangeLen == 3

(***************************************************************************)
(* Byte-string literals of the source.                                     *)
(***************************************************************************)
PING   == <<80, 73, 78, 71>>
ECHO   == <<69, 67, 72, 79>>
SET    == <<83, 69, 84>>
GET    == <<71, 69, 84>>
RPUSH  == <<82, 80, 85, 83, 72>>
LPUSH  == <<76, 80, 85, 83, 72>>
LRANGE == <<76, 82, 65, 78, 71, 69>>
EX     == <<69, 88>>
PX     == <<80, 88>>

\* Duration::from_secs(s) is s * 1000 milliseconds; the clock counts milliseconds.
MillisPerSec == 1000

(***************************************************************************)
(* RespValue (resp.rs): one record shape for the six variants.  `bytes` is *)
(* the payload of a BulkString; `text` is the String of a SimpleString or  *)
(* an Error, a literal of the source followed by the formatted `bytes`.    *)
(***************************************************************************)
SimpleString(s) == [type |-> "SimpleString", text |-> s, bytes |-> <<>>, int |-> 0, elems |-> <<>>]
Error(s)        == [type |-> "Error", text |-> s, bytes |-> <<>>, int |-> 0, elems |-> <<>>]
ErrorFmt(s, b)  == [type |-> "Error", text |-> s, bytes |-> b, int |-> 0, elems |-> <<>>]
Integer(i)      == [type |-> "Integer", text |-> "", bytes |-> <<>>, int |-> i, elems |-> <<>>]
BulkString(b)   == [type |-> "BulkString", text |-> "", bytes |-> b, int |-> 0, elems |-> <<>>]
Array(es)       == [type |-> "Array", text |-> "", bytes |-> <<>>, int |-> 0, elems |-> es]
Null            == [type |-> "Null", text |-> "", bytes |-> <<>>, int |-> 0, elems |-> <<>>]

(***************************************************************************)
(* Conversions of the standard library, computed as the library computes   *)
(* them on the bytes the model uses: ASCII bytes (< 128), the byte 0xFF    *)
(* (never part of a valid UTF-8 sequence) and the three bytes EF BF BD of  *)
(* U+FFFD that from_utf8_lossy writes for it.                              *)
(***************************************************************************)
\* The UTF-8 encoding of U+FFFD REPLACEMENT CHARACTER.
Replacement == <<239, 191, 189>>

\* A byte that no valid UTF-8 sequence holds.
InvalidByte(b) == b \in 248..255

\* String::from_utf8_lossy(b).into_owned(): every invalid byte becomes U+FFFD.
RECURSIVE from_utf8_lossy(_)
from_utf8_lossy(b) ==
    IF b = <<>> THEN <<>>
    ELSE (IF InvalidByte(Head(b)) THEN Replacement ELSE <<Head(b)>>)
             \o from_utf8_lossy(Tail(b))

\* A variant of to_uppercase that leaves the text as it is.
to_uppercase_forgotten(s) == s

\* str::to_uppercase on the model's bytes: a..z become A..Z, U+FFFD is itself.
to_uppercase(s) == [i \in 1..Len(s) |-> IF s[i] \in 97..122 THEN s[i] - 32 ELSE s[i]]

IsDigit(b) == b \in 48..57

RECURSIVE DigitsValue(_, _)
DigitsValue(s, acc) ==
    IF s = <<>> THEN acc ELSE DigitsValue(Tail(s), acc * 10 + (Head(s) - 48))

AllDigits(s) == s # <<>> /\ \A i \in 1..Len(s) : IsDigit(s[i])

\* Option / Result values: `some` tells Some / Ok from None / Err.
Some(v) == [some |-> TRUE, v |-> v]
NoInt   == [some |-> FALSE, v |-> 0]

\* str::parse::<u64>: an optional '+', then one or more digits.  (The numbers
\* the model writes have one or two digits, so the range check of the library,
\* at most 2^64 - 1, never fails and is left out.)
parse_u64(s) ==
    LET d == IF s # <<>> /\ Head(s) = 43 THEN Tail(s) ELSE s
    IN  IF AllDigits(d) THEN Some(DigitsValue(d, 0)) ELSE NoInt

\* str::parse::<isize>: an optional '+' or '-', then one or more digits (the
\* range check, -2^63 .. 2^63 - 1, never fails on the model's numbers).
parse_isize(s) ==
    LET neg == s # <<>> /\ Head(s) = 45
        d   == IF s # <<>> /\ Head(s) \in {43, 45} THEN Tail(s) ELSE s
    IN  IF AllDigits(d)
        THEN Some(IF neg THEN 0 - DigitsValue(d, 0) ELSE DigitsValue(d, 0))
        ELSE NoInt

(***************************************************************************)
(* The store (cmd.rs:7-33).  `data` is the HashMap<String, ValueEntry>: a  *)
(* function whose domain is the set of keys present.                       *)
(***************************************************************************)
\* RedisValue::String(s) and RedisValue::List(l).
StringValue(s) == [kind |-> "String", s |-> s, list |-> <<>>]
ListValue(l)   == [kind |-> "List", s |-> <<>>, list |-> l]

\* Option<SystemTime> and Option<Expiration>.
NoTime       == [some |-> FALSE, t |-> 0]
SomeTime(t)  == [some |-> TRUE, t |-> t]
NoExpiration == [some |-> FALSE, unit |-> "", n |-> 0]
Seconds(n)      == [some |-> TRUE, unit |-> "Seconds", n |-> n]
Milliseconds(n) == [some |-> TRUE, unit |-> "Milliseconds", n |-> n]

ValueEntry(value, expiry_time) == [value |-> value, expiry_time |-> expiry_time]

\* CommandExecutor::new(): the empty map.
EmptyData == [k \in {} |-> 0]

\* HashMap::insert / remove / contains_key.
Insert(d, key, entry) == [k \in DOMAIN d \cup {key} |-> IF k = key THEN entry ELSE d[k]]
Remove(d, key)        == [k \in DOMAIN d \ {key} |-> d[k]]
Contains(d, key)      == key \in DOMAIN d

\* expiry_opt.map(|arg| SystemTime::now() + duration), at clock reading t.
ExpiryTime(expiry_opt, t) ==
    IF ~expiry_opt.some THEN NoTime
    ELSE IF expiry_opt.unit = "Seconds" THEN SomeTime(t + expiry_opt.n * MillisPerSec)
    ELSE SomeTime(t + expiry_opt.n)

\* The outcome of a method that may panic: `data` is the store it leaves.
Done(d, ret)  == [panic |-> FALSE, data |-> d, ret |-> ret]
Panicked(d)   == [panic |-> TRUE, data |-> d, ret |-> <<>>]

\* A variant of set that keeps an entry the key already has (or_insert alone).
set_keeps_old(d, key, value, expiry_opt, t) ==
    IF Contains(d, key) THEN d
    ELSE Insert(d, key, ValueEntry(StringValue(value), ExpiryTime(expiry_opt, t)))

\* A variant of set that writes the value of an entry the key already has and
\* leaves its expiry alone (v.value = .. for *v = ..).
set_keeps_expiry(d, key, value, expiry_opt, t) ==
    IF Contains(d, key)
    THEN Insert(d, key, ValueEntry(StringValue(value), d[key].expiry_time))
    ELSE Insert(d, key, ValueEntry(StringValue(value), ExpiryTime(expiry_opt, t)))

\* set: the entry of key becomes String(value) with the new expiry.
set(d, key, value, expiry_opt, t) ==
    Insert(d, key, ValueEntry(StringValue(value), ExpiryTime(expiry_opt, t)))

\* A variant of rpush that puts each value at the front of an existing list
\* (insert(0, ..) for push).
RECURSIVE rpush_front(_, _, _, _, _)
rpush_front(d, key, values, expiry_opt, t) ==
    IF values = <<>> THEN Done(d, <<>>)
    ELSE IF Contains(d, key)
         THEN IF d[key].value.kind = "List"
              THEN rpush_front(Insert(d, key, ValueEntry(
                                   ListValue(<<Head(values)>> \o d[key].value.list),
                                   d[key].expiry_time)),
                               key, Tail(values), expiry_opt, t)
              ELSE Panicked(d)
         ELSE rpush_front(Insert(d, key, ValueEntry(ListValue(<<Head(values)>>),
                                                    ExpiryTime(expiry_opt, t))),
                          key, Tail(values), expiry_opt, t)

\* rpush: one entry() call per value; on an existing String entry the closure
\* runs unreachable!().
RECURSIVE rpush(_, _, _, _, _)
rpush(d, key, values, expiry_opt, t) ==
    IF values = <<>> THEN Done(d, <<>>)
    ELSE IF Contains(d, key)
         THEN IF d[key].value.kind = "List"
              THEN rpush(Insert(d, key, ValueEntry(
                                   ListValue(Append(d[key].value.list, Head(values))),
                                   d[key].expiry_time)),
                         key, Tail(values), expiry_opt, t)
              ELSE Panicked(d)
         ELSE rpush(Insert(d, key, ValueEntry(ListValue(<<Head(values)>>),
                                              ExpiryTime(expiry_opt, t))),
                    key, Tail(values), expiry_opt, t)

\* lpush: one entry() call; buf.splice(0..0, values) puts values before buf.
lpush(d, key, values, expiry_opt, t) ==
    IF Contains(d, key)
    THEN IF d[key].value.kind = "List"
         THEN Done(Insert(d, key, ValueEntry(ListValue(values \o d[key].value.list),
                                             d[key].expiry_time)), <<>>)
         ELSE Panicked(d)
    ELSE Done(Insert(d, key, ValueEntry(ListValue(values), ExpiryTime(expiry_opt, t))),
              <<>>)

\* get: Option<String>, after the lazy expiry check; unimplemented!() on a List.
NoString      == [some |-> FALSE, s |-> <<>>]
SomeString(s) == [some |-> TRUE, s |-> s]

\* A variant of get that expires an entry only after its expiry time (> for >=).
get_after_expiry(d, key, t) ==
    IF Contains(d, key)
    THEN IF d[key].expiry_time.some /\ t > d[key].expiry_time.t
         THEN Done(Remove(d, key), NoString)
         ELSE IF d[key].value.kind = "String"
              THEN Done(d, SomeString(d[key].value.s))
              ELSE Panicked(d)
    ELSE Done(d, NoString)

get(d, key, t) ==
    IF Contains(d, key)
    THEN IF d[key].expiry_time.some /\ t >= d[key].expiry_time.t
         THEN Done(Remove(d, key), NoString)
         ELSE IF d[key].value.kind = "String"
              THEN Done(d, SomeString(d[key].value.s))
              ELSE Panicked(d)
    ELSE Done(d, NoString)

\* llen: the length of the list; unreachable!() on a String.
llen(d, lst_key) ==
    IF Contains(d, lst_key)
    THEN IF d[lst_key].value.kind = "List"
         THEN Done(d, Len(d[lst_key].value.list))
         ELSE Panicked(d)
    ELSE Done(d, 0)

\* usize::MAX.  It is 2^64 - 1 in the build; TLC's integers are 32 bits wide, so
\* the model writes the largest of them: like 2^64 - 1 it is above every length
\* and index the model reaches, which is all the code uses it for.
UsizeMax == 2147483647

\* `i as usize` for an isize i: a negative i wraps around.
as_usize(i) == IF i >= 0 THEN i ELSE UsizeMax + (i + 1)

Min(a, b) == IF a < b THEN a ELSE b
Max(a, b) == IF a > b THEN a ELSE b

\* A variant of lrange whose range leaves out its end (start_idx..end_idx for
\* start_idx..=end_idx).
lrange_exclusive(d, lst_key, start, end) ==
    IF Contains(d, lst_key)
    THEN IF d[lst_key].value.kind = "List"
         THEN LET buffer    == d[lst_key].value.list
                  len       == Len(buffer)
                  start_idx == IF start < 0 THEN Max(0, len + start)
                                            ELSE Min(len - 1, start)
                  end_idx   == IF end < 0 THEN Max(0, len + end)
                                          ELSE Min(len - 1, end)
              IN  IF start_idx > end_idx THEN Done(d, <<>>)
                  ELSE LET ustart == as_usize(start_idx)
                           uend   == as_usize(end_idx)
                       IN  IF ustart >= uend THEN Done(d, <<>>)
                           ELSE IF uend - 1 >= len THEN Panicked(d)
                           ELSE Done(d, [i \in 1..(uend - ustart) |->
                                             buffer[ustart + i]])
         ELSE Panicked(d)
    ELSE Done(d, <<>>)

\* lrange: the clamped inclusive slice; buffer[idx] panics out of bounds, and
\* unimplemented!() on a String.
lrange(d, lst_key, start, end) ==
    IF Contains(d, lst_key)
    THEN IF d[lst_key].value.kind = "List"
         THEN LET buffer    == d[lst_key].value.list
                  len       == Len(buffer)
                  start_idx == IF start < 0 THEN Max(0, len + start)
                                            ELSE Min(len - 1, start)
                  end_idx   == IF end < 0 THEN Max(0, len + end)
                                          ELSE Min(len - 1, end)
              IN  IF start_idx > end_idx THEN Done(d, <<>>)
                  ELSE LET ustart == as_usize(start_idx)
                           uend   == as_usize(end_idx)
                       IN  IF ustart > uend THEN Done(d, <<>>)
                           ELSE IF uend >= len THEN Panicked(d)
                           ELSE Done(d, [i \in 1..(uend - ustart + 1) |->
                                             buffer[ustart + i]])
         ELSE Panicked(d)
    ELSE Done(d, <<>>)

(***************************************************************************)
(* visit_array (cmd.rs:172-331): the dispatcher.  Its outcome is a reply   *)
(* and the store it leaves, or a panic (an index out of bounds, expect()   *)
(* on a failed parse, unreachable!() / unimplemented!() in a method).      *)
(***************************************************************************)
Reply(d, r) == [panic |-> FALSE, data |-> d, reply |-> r]
Abort(d)    == [panic |-> TRUE, data |-> d, reply |-> Null]

IsBulk(v) == v.type = "BulkString"

\* String::from_utf8_lossy(b).into_owned() of the element at slice index i.
Text(array, i) == from_utf8_lossy(array[i + 1].bytes)

\* "PING".
ArmPing(array, d) == Reply(d, SimpleString("PONG"))

\* A variant of "ECHO" that replies the argument as the text it reads as
\* (from_utf8_lossy(b).into_bytes() for b.clone()).
ArmEchoText(array, d) ==
    IF Len(array) < 2 THEN Abort(d)
    ELSE IF IsBulk(array[2]) THEN Reply(d, BulkString(Text(array, 1)))
    ELSE Reply(d, Error("expected ECHO <bulkstring>"))

\* "ECHO": &array[1] panics when the array has one element.
ArmEcho(array, d) ==
    IF Len(array) < 2 THEN Abort(d)
    ELSE IF IsBulk(array[2]) THEN Reply(d, BulkString(array[2].bytes))
    ELSE Reply(d, Error("expected ECHO <bulkstring>"))

\* The numeric argument of EX / PX at slice index 4: array.get(4), then
\* parse::<u64>().expect("Invalid int").
TimeArg(array, missing) ==
    IF Len(array) < 5 THEN [out |-> "error", n |-> 0, err |-> missing]
    ELSE IF ~IsBulk(array[5])
         THEN [out |-> "error", n |-> 0, err |-> "timeval must be bulkstring"]
    ELSE IF ~parse_u64(Text(array, 4)).some THEN [out |-> "panic", n |-> 0, err |-> ""]
    ELSE [out |-> "ok", n |-> parse_u64(Text(array, 4)).v, err |-> ""]

\* The expiry option of SET (cmd.rs:197-242): array.get(3) and what follows it.
ExpiryOpt(array) ==
    IF Len(array) < 4 THEN [out |-> "ok", opt |-> NoExpiration, err |-> ""]
    ELSE IF ~IsBulk(array[4])
         THEN [out |-> "error", opt |-> NoExpiration, err |-> "Either EX/PX expected"]
    ELSE IF Text(array, 3) = EX
         THEN LET a == TimeArg(array, "EX <timeout-in-sec>")
              IN  [out |-> a.out, opt |-> Seconds(a.n), err |-> a.err]
    ELSE IF Text(array, 3) = PX
         THEN LET a == TimeArg(array, "PX <timeout-in-msec>")
              IN  [out |-> a.out, opt |-> Milliseconds(a.n), err |-> a.err]
    ELSE [out |-> "error", opt |-> NoExpiration, err |-> "Either EX/PX supported"]

\* "SET".
ArmSet(array, d, t) ==
    IF Len(array) < 2 THEN Abort(d)
    ELSE IF ~IsBulk(array[2]) THEN Reply(d, Error("key must be bulkstring"))
    ELSE IF Len(array) < 3 THEN Abort(d)
    ELSE IF ~IsBulk(array[3]) THEN Reply(d, Error("value must be bulkstring"))
    ELSE LET e == ExpiryOpt(array)
         IN  IF e.out = "panic" THEN Abort(d)
             ELSE IF e.out = "error" THEN Reply(d, Error(e.err))
             ELSE Reply(set(d, Text(array, 1), Text(array, 2), e.opt, t),
                        SimpleString("OK"))

\* "GET".
ArmGet(array, d, t) ==
    IF Len(array) < 2 THEN Abort(d)
    ELSE IF ~IsBulk(array[2]) THEN Reply(d, Error("key must be bulkstring"))
    ELSE LET r == get(d, Text(array, 1), t)
         IN  IF r.panic THEN Abort(r.data)
             ELSE IF r.ret.some THEN Reply(r.data, BulkString(r.ret.s))
             ELSE Reply(r.data, Null)

\* array.iter().skip(2): the elements after the key, converted in order; the
\* loop returns the Error at the first element that is no BulkString.
AllBulkFrom(array, i) == \A j \in (i + 1)..Len(array) : IsBulk(array[j])
Buffer(array) == [j \in 1..(Len(array) - 2) |-> from_utf8_lossy(array[j + 2].bytes)]

\* A variant of Rev that leaves the order as it is (collect() without rev()).
RevForgotten(s) == s

\* buffer.into_iter().rev().collect().
Rev(s) == [i \in 1..Len(s) |-> s[Len(s) + 1 - i]]

\* The longest prefix of a sequence of elements that holds BulkStrings only.
RECURSIVE BulkPrefix(_)
BulkPrefix(es) ==
    IF es = <<>> \/ ~IsBulk(Head(es)) THEN <<>>
    ELSE <<from_utf8_lossy(Head(es).bytes)>> \o BulkPrefix(Tail(es))

\* A variant of "RPUSH" that pushes each element as soon as it has validated it,
\* so that an invalid element is met after the ones before it are in the list.
ArmRpushEager(array, d, t) ==
    IF Len(array) < 2 THEN Abort(d)
    ELSE IF ~IsBulk(array[2]) THEN Reply(d, Error("list name must be bulkstring"))
    ELSE LET p == rpush(d, Text(array, 1), BulkPrefix(SubSeq(array, 3, Len(array))),
                        NoExpiration, t)
         IN  IF p.panic THEN Abort(p.data)
             ELSE IF ~AllBulkFrom(array, 2)
                  THEN Reply(p.data, Error("list element must be bulkstring"))
             ELSE LET n == llen(p.data, Text(array, 1))
                  IN  IF n.panic THEN Abort(n.data)
                      ELSE Reply(n.data, Integer(n.ret))

\* "RPUSH": validate every element, then rpush, then llen.
ArmRpush(array, d, t) ==
    IF Len(array) < 2 THEN Abort(d)
    ELSE IF ~IsBulk(array[2]) THEN Reply(d, Error("list name must be bulkstring"))
    ELSE IF ~AllBulkFrom(array, 2) THEN Reply(d, Error("list element must be bulkstring"))
    ELSE LET p == rpush(d, Text(array, 1), Buffer(array), NoExpiration, t)
         IN  IF p.panic THEN Abort(p.data)
             ELSE LET n == llen(p.data, Text(array, 1))
                  IN  IF n.panic THEN Abort(n.data)
                      ELSE Reply(n.data, Integer(n.ret))

\* "LPUSH": validate every element, then lpush of the reversed buffer, then llen.
ArmLpush(array, d, t) ==
    IF Len(array) < 2 THEN Abort(d)
    ELSE IF ~IsBulk(array[2]) THEN Reply(d, Error("list name must be bulkstring"))
    ELSE IF ~AllBulkFrom(array, 2) THEN Reply(d, Error("list element must be bulkstring"))
    ELSE LET p == lpush(d, Text(array, 1), Rev(Buffer(array)), NoExpiration, t)
         IN  IF p.panic THEN Abort(p.data)
             ELSE LET n == llen(p.data, Text(array, 1))
                  IN  IF n.panic THEN Abort(n.data)
                      ELSE Reply(n.data, Integer(n.ret))

\* "LRANGE": key, start and end are read in this order, each by index.
ArmLrange(array, d) ==
    IF Len(array) < 2 THEN Abort(d)
    ELSE IF ~IsBulk(array[2]) THEN Reply(d, Error("list name must be bulkstring"))
    ELSE IF Len(array) < 3 THEN Abort(d)
    ELSE IF ~IsBulk(array[3]) THEN Reply(d, Error("start_idx must be bulk string"))
    ELSE IF ~parse_isize(Text(array, 2)).some THEN Abort(d)
    ELSE IF Len(array) < 4 THEN Abort(d)
    ELSE IF ~IsBulk(array[4]) THEN Reply(d, Error("start_idx must be bulk string"))
    ELSE IF ~parse_isize(Text(array, 3)).some THEN Abort(d)
    ELSE LET r == lrange(d, Text(array, 1), parse_isize(Text(array, 2)).v,
                         parse_isize(Text(array, 3)).v)
         IN  IF r.panic THEN Abort(r.data)
             ELSE Reply(r.data, Array([i \in 1..Len(r.ret) |-> BulkString(r.ret[i])]))

\* visit_array at clock reading t on store d.
visit_array(array, d, t) ==
    IF array = <<>> THEN Reply(d, Error("Empty command array"))
    ELSE IF ~IsBulk(array[1]) THEN Reply(d, Error("Command must be a bulk string"))
    ELSE LET cmd_name == to_uppercase(Text(array, 0))
         IN  CASE cmd_name = PING   -> ArmPing(array, d)
               [] cmd_name = ECHO   -> ArmEcho(array, d)
               [] cmd_name = SET    -> ArmSet(array, d, t)
               [] cmd_name = GET    -> ArmGet(array, d, t)
               [] cmd_name = RPUSH  -> ArmRpush(array, d, t)
               [] cmd_name = LPUSH  -> ArmLpush(array, d, t)
               [] cmd_name = LRANGE -> ArmLrange(array, d)
               [] OTHER -> Reply(d, ErrorFmt("Unknown command: ", cmd_name))

\* RespValue::accept (resp.rs:14-20): an Array goes to visit_array, a BulkString
\* to visit_bulk_string, whose default body returns Null (traits.rs:5-7), and
\* any other value runs unimplemented!().
accept(command, d, t) ==
    IF command.type = "Array" THEN visit_array(command.elems, d, t)
    ELSE IF command.type = "BulkString" THEN Reply(d, Null)
    ELSE Abort(d)

\* execute_cmd (main.rs:9-12): the executor is made in the function, so the
\* command meets a store with no entry.
execute_cmd(command, t) == accept(command, EmptyData, t)

(***************************************************************************)
(* The inputs of the model: the command arrays a client sends.             *)
(***************************************************************************)
\* Key and value payloads: "k" and "a" are ASCII, 0xFF is not valid UTF-8.
K1 == <<107>>
K2 == <<255>>
V1 == <<97>>
V2 == <<255>>
KeyBytes == {K1, K2}
ValBytes == {V1, V2}

\* Command names: the seven supported ones, "get" in lower case, and "FOO" and
\* "foo", which name no command.
LowerGet == <<103, 101, 116>>
Foo      == <<70, 79, 79>>
LowerFoo == <<102, 111, 111>>
Names    == {PING, ECHO, SET, GET, RPUSH, LPUSH, LRANGE, LowerGet, Foo, LowerFoo}

KeyArgs == {BulkString(k) : k \in KeyBytes}
ValArgs == {BulkString(v) : v \in ValBytes}
\* What the parser yields besides a BulkString, as an element of an array.
NonBulk == {Null}

\* The decimal text of an integer of one or two digits.
Digits(n) == IF n < 10 THEN <<48 + n>> ELSE <<48 + (n \div 10), 48 + (n % 10)>>
Itoa(i)   == IF i < 0 THEN <<45>> \o Digits(0 - i) ELSE Digits(i)

\* Clock readings at which the model looks at the system: 0 and 1 s.
Instants == {0, MillisPerSec}

\* EX / PX options: well-formed ones, and malformed ones (a lower-case name, a
\* missing, non-numeric or negative number, an element that is no BulkString).
LowerEx == <<101, 120>>
GoodOptions == {<<BulkString(EX), BulkString(Itoa(1))>>, <<BulkString(PX), BulkString(Itoa(1))>>,
                <<BulkString(PX), BulkString(Itoa(0))>>}
BadOptions ==
    {<<BulkString(o)>> : o \in {EX, PX, LowerEx}}
      \cup {<<BulkString(o), x>> : o \in {EX, PX},
                                  x \in {BulkString(V1), BulkString(Itoa(-1)), Null}}
      \cup {<<BulkString(LowerEx), BulkString(Itoa(1))>>, <<Null, BulkString(Itoa(1))>>}

\* Index arguments of LRANGE: every integer around the lengths the lists have.
Indices == {BulkString(Itoa(i)) : i \in (0 - (MaxRangeLen + 2))..(MaxRangeLen + 2)}

\* Arrays of one, two and three elements: every command name with no argument,
\* with a key or a non-BulkString, and with a key and a value.
ShortCommands ==
    {<<BulkString(n)>> : n \in Names}
      \cup {<<BulkString(n), x>> : n \in Names, x \in KeyArgs \cup NonBulk}
      \cup {<<BulkString(n), k, x>> : n \in {SET, RPUSH, LPUSH, LRANGE},
                                     k \in KeyArgs, x \in ValArgs \cup NonBulk}
      \cup {<<BulkString(n), x, BulkString(V1)>> : n \in {SET, RPUSH, LPUSH, LRANGE},
                                                  x \in NonBulk}
      \cup {<<BulkString(n), BulkString(K1), x>> : n \in {Foo, LowerFoo},
                                                  x \in {BulkString(V1), Null}}

\* SET with an option: well-formed on K1 with either value, malformed on K1.
OptionCommands ==
    {<<BulkString(SET), BulkString(K1), v>> \o o : v \in ValArgs, o \in GoodOptions}
      \cup {<<BulkString(SET), BulkString(K1), BulkString(V1)>> \o o : o \in BadOptions}

\* Pushes of two and three elements: any two values, three values that start
\* with two different ones, and a non-BulkString before or after a value.
PushCommands ==
    {<<BulkString(n), k, x, y>> : n \in {RPUSH, LPUSH}, k \in KeyArgs,
                                  x \in ValArgs, y \in ValArgs}
      \cup {<<BulkString(n), k, BulkString(V1), BulkString(V2), z>> :
               n \in {RPUSH, LPUSH}, k \in KeyArgs, z \in ValArgs}
      \cup {<<BulkString(n), BulkString(K1)>> \o xs : n \in {RPUSH, LPUSH},
               xs \in {<<BulkString(V1), Null>>, <<Null, BulkString(V1)>>}}

\* LRANGE with three arguments: the whole list, and malformed indices.
FewRangeCommands ==
    {<<BulkString(LRANGE), k, BulkString(Itoa(0)), BulkString(Itoa(-1))>> : k \in KeyArgs}
      \cup {<<BulkString(LRANGE), BulkString(K1), s, e>> :
               s \in {BulkString(Itoa(0)), BulkString(V1), Null},
               e \in {BulkString(Itoa(0)), BulkString(V1), Null}}

Commands == ShortCommands \cup OptionCommands \cup PushCommands \cup FewRangeCommands

\* The commands of the specification that studies LRANGE: pushes that build
\* every list of up to MaxRangeLen elements at K1, an LPUSH of K1 with no value,
\* a SET of K2, and LRANGE with every pair of indices.
RangeCommands ==
    {<<BulkString(n), BulkString(K1), x>> : n \in {RPUSH, LPUSH}, x \in ValArgs}
      \cup {<<BulkString(LPUSH), BulkString(K1)>>}
      \cup {<<BulkString(SET), BulkString(K2), BulkString(V1)>>}
      \cup {<<BulkString(LRANGE), k, s, e>> : k \in KeyArgs, s \in Indices, e \in Indices}

(***************************************************************************)
(* The codec (resp.rs).  A buffer (&[u8]) is a sequence of bytes and the   *)
(* cursor `offset` counts the bytes before it, so that data[offset] of the *)
(* source is data[offset + 1] here.                                        *)
(***************************************************************************)
CRLF   == <<13, 10>>
Star   == <<42>>
Dollar == <<36>>

\* The bytes of a String of the source: its UTF-8 encoding.
Utf8(s) ==
    CASE s = "" ->
             <<>>
      [] s = "OK" ->
             <<79, 75>>
      [] s = "PONG" ->
             <<80, 79, 78, 71>>
      [] s = "Empty command array" ->
             <<69, 109, 112, 116, 121, 32, 99, 111, 109, 109, 97, 110, 100, 32, 97, 114, 114, 97, 121>>
      [] s = "Command must be a bulk string" ->
             <<67, 111, 109, 109, 97, 110, 100, 32, 109, 117, 115, 116, 32, 98, 101, 32, 97, 32, 98, 117, 108, 107, 32, 115, 116, 114, 105, 110, 103>>
      [] s = "expected ECHO <bulkstring>" ->
             <<101, 120, 112, 101, 99, 116, 101, 100, 32, 69, 67, 72, 79, 32, 60, 98, 117, 108, 107, 115, 116, 114, 105, 110, 103, 62>>
      [] s = "key must be bulkstring" ->
             <<107, 101, 121, 32, 109, 117, 115, 116, 32, 98, 101, 32, 98, 117, 108, 107, 115, 116, 114, 105, 110, 103>>
      [] s = "value must be bulkstring" ->
             <<118, 97, 108, 117, 101, 32, 109, 117, 115, 116, 32, 98, 101, 32, 98, 117, 108, 107, 115, 116, 114, 105, 110, 103>>
      [] s = "Either EX/PX expected" ->
             <<69, 105, 116, 104, 101, 114, 32, 69, 88, 47, 80, 88, 32, 101, 120, 112, 101, 99, 116, 101, 100>>
      [] s = "timeval must be bulkstring" ->
             <<116, 105, 109, 101, 118, 97, 108, 32, 109, 117, 115, 116, 32, 98, 101, 32, 98, 117, 108, 107, 115, 116, 114, 105, 110, 103>>
      [] s = "EX <timeout-in-sec>" ->
             <<69, 88, 32, 60, 116, 105, 109, 101, 111, 117, 116, 45, 105, 110, 45, 115, 101, 99, 62>>
      [] s = "PX <timeout-in-msec>" ->
             <<80, 88, 32, 60, 116, 105, 109, 101, 111, 117, 116, 45, 105, 110, 45, 109, 115, 101, 99, 62>>
      [] s = "Either EX/PX supported" ->
             <<69, 105, 116, 104, 101, 114, 32, 69, 88, 47, 80, 88, 32, 115, 117, 112, 112, 111, 114, 116, 101, 100>>
      [] s = "list name must be bulkstring" ->
             <<108, 105, 115, 116, 32, 110, 97, 109, 101, 32, 109, 117, 115, 116, 32, 98, 101, 32, 98, 117, 108, 107, 115, 116, 114, 105, 110, 103>>
      [] s = "list element must be bulkstring" ->
             <<108, 105, 115, 116, 32, 101, 108, 101, 109, 101, 110, 116, 32, 109, 117, 115, 116, 32, 98, 101, 32, 98, 117, 108, 107, 115, 116, 114, 105, 110, 103>>
      [] s = "start_idx must be bulk string" ->
             <<115, 116, 97, 114, 116, 95, 105, 100, 120, 32, 109, 117, 115, 116, 32, 98, 101, 32, 98, 117, 108, 107, 32, 115, 116, 114, 105, 110, 103>>
      [] s = "Unknown command: " ->
             <<85, 110, 107, 110, 111, 119, 110, 32, 99, 111, 109, 109, 97, 110, 100, 58, 32>>
      [] s = "Empty data" ->
             <<69, 109, 112, 116, 121, 32, 100, 97, 116, 97>>
      [] s = "Missing CRLF terminator" ->
             <<77, 105, 115, 115, 105, 110, 103, 32, 67, 82, 76, 70, 32, 116, 101, 114, 109, 105, 110, 97, 116, 111, 114>>
      [] s = "Invalid utf-8" ->
             <<73, 110, 118, 97, 108, 105, 100, 32, 117, 116, 102, 45, 56>>
      [] s = "Invalid integer format, " ->
             <<73, 110, 118, 97, 108, 105, 100, 32, 105, 110, 116, 101, 103, 101, 114, 32, 102, 111, 114, 109, 97, 116, 44, 32>>
      [] s = "Expected bulk string prefix '$'" ->
             <<69, 120, 112, 101, 99, 116, 101, 100, 32, 98, 117, 108, 107, 32, 115, 116, 114, 105, 110, 103, 32, 112, 114, 101, 102, 105, 120, 32, 39, 36, 39>>
      [] s = "Incomplete bulk string data" ->
             <<73, 110, 99, 111, 109, 112, 108, 101, 116, 101, 32, 98, 117, 108, 107, 32, 115, 116, 114, 105, 110, 103, 32, 100, 97, 116, 97>>
      [] s = "Expected a command array of length atleast 1" ->
             <<69, 120, 112, 101, 99, 116, 101, 100, 32, 97, 32, 99, 111, 109, 109, 97, 110, 100, 32, 97, 114, 114, 97, 121, 32, 111, 102, 32, 108, 101, 110, 103, 116, 104, 32, 97, 116, 108, 101, 97, 115, 116, 32, 49>>
      [] s = "Unsupported or invalid RESP prefix" ->
             <<85, 110, 115, 117, 112, 112, 111, 114, 116, 101, 100, 32, 111, 114, 32, 105, 110, 118, 97, 108, 105, 100, 32, 82, 69, 83, 80, 32, 112, 114, 101, 102, 105, 120>>

\* std::str::from_utf8 succeeds: on the model's bytes, ASCII and U+FFFD are
\* UTF-8 and nothing else is.
RECURSIVE ValidUtf8(_)
ValidUtf8(b) ==
    IF b = <<>> THEN TRUE
    ELSE IF Head(b) < 128 THEN ValidUtf8(Tail(b))
    ELSE IF Len(b) >= 3 /\ SubSeq(b, 1, 3) = Replacement THEN ValidUtf8(SubSeq(b, 4, Len(b)))
    ELSE FALSE

\* Display of an integer (a length, a count or an Integer reply).
ItoaAny(i) == IF i < 0 THEN <<45>> \o Digits(0 - i) ELSE Digits(i)

\* impl Display for RespValue (format!("{}", v)): a BulkString writes the
\* number of its bytes and then String::from_utf8_lossy of them.
RECURSIVE Display(_)
Display(v) ==
    CASE v.type = "SimpleString" -> <<43>> \o Utf8(v.text) \o CRLF
      [] v.type = "Error"        -> <<45>> \o Utf8(v.text) \o v.bytes \o CRLF
      [] v.type = "Integer"      -> <<58>> \o ItoaAny(v.int) \o CRLF
      [] v.type = "BulkString"   ->
             Dollar \o ItoaAny(Len(v.bytes)) \o CRLF \o from_utf8_lossy(v.bytes) \o CRLF
      [] v.type = "Array"        ->
             LET RECURSIVE Each(_)
                 Each(es) == IF es = <<>> THEN <<>> ELSE Display(Head(es)) \o Each(Tail(es))
             IN  Star \o ItoaAny(Len(v.elems)) \o CRLF \o Each(v.elems)
      [] v.type = "Null"         -> Dollar \o <<45, 49>> \o CRLF

\* Result<_, String> of the parsing functions, with the cursor they leave:
\* Ok(v), Err(e), or a panic.
Ok(v, offset)  == [out |-> "ok", value |-> v, offset |-> offset, err |-> "", arg |-> <<>>]
Err(e, offset) == [out |-> "err", value |-> Null, offset |-> offset, err |-> e, arg |-> <<>>]
Panic(offset)  == [out |-> "panic", value |-> Null, offset |-> offset, err |-> "", arg |-> <<>>]
\* Err(format!("Invalid integer format, {}", num_str)).
ErrFmt(e, b, offset) == [out |-> "err", value |-> Null, offset |-> offset, err |-> e, arg |-> b]

\* consume_crlf: the two bytes at the cursor are "\r\n", and the cursor steps
\* over them.
consume_crlf(data, offset) ==
    IF Len(data) < offset + 2 \/ SubSeq(data, offset + 1, offset + 2) # CRLF
    THEN Err("Missing CRLF terminator", offset)
    ELSE Ok(Null, offset + 2)

\* An i64 of the model: `v` is its value when it has at most nine digits, and
\* a wider one keeps its sign and its digits.
Small(v)        == [some |-> TRUE, wide |-> FALSE, neg |-> v < 0, v |-> v, digits |-> <<>>]
Wide(neg, d)    == [some |-> TRUE, wide |-> TRUE, neg |-> neg, v |-> 0, digits |-> d]
NoI64           == [some |-> FALSE, wide |-> FALSE, neg |-> FALSE, v |-> 0, digits |-> <<>>]

RECURSIVE StripZeros(_)
StripZeros(d) == IF Len(d) > 1 /\ Head(d) = 48 THEN StripZeros(Tail(d)) ELSE d

\* a <= b for two digit texts of the same length.
RECURSIVE DigitsLeq(_, _)
DigitsLeq(a, b) ==
    IF a = <<>> THEN TRUE
    ELSE IF Head(a) # Head(b) THEN Head(a) < Head(b)
    ELSE DigitsLeq(Tail(a), Tail(b))

\* The digits of i64::MAX, 9223372036854775807, and of -i64::MIN.
I64MaxDigits == <<57, 50, 50, 51, 51, 55, 50, 48, 51, 54, 56, 53, 52, 55, 55, 53, 56, 48, 55>>
I64MinDigits == <<57, 50, 50, 51, 51, 55, 50, 48, 51, 54, 56, 53, 52, 55, 55, 53, 56, 48, 56>>

\* str::parse::<i64>: an optional sign, one or more digits, within the range.
parse_i64(s) ==
    LET neg == s # <<>> /\ Head(s) = 45
        d   == IF s # <<>> /\ Head(s) \in {43, 45} THEN Tail(s) ELSE s
        sig == StripZeros(d)
    IN  IF ~AllDigits(d) THEN NoI64
        ELSE IF Len(sig) <= 9
             THEN Small(IF neg THEN 0 - DigitsValue(sig, 0) ELSE DigitsValue(sig, 0))
        ELSE IF Len(sig) < 19 THEN Wide(neg, sig)
        ELSE IF Len(sig) = 19 /\ DigitsLeq(sig, IF neg THEN I64MinDigits ELSE I64MaxDigits)
             THEN Wide(neg, sig)
        ELSE NoI64

\* n < k for an i64 n of the model and a small k >= 0.
LessThan(n, k) == IF n.wide THEN n.neg ELSE n.v < k

\* parse_integer: the bytes up to the next '\r' (or the end), as UTF-8, as an
\* i64, and then the CRLF.  `value` carries the i64.
parse_integer(data, offset) ==
    LET start == offset
        stops == {i \in start..(Len(data) - 1) : data[i + 1] = 13}
        end   == IF stops = {} THEN Len(data)
                 ELSE CHOOSE i \in stops : \A j \in stops : i <= j
        num_bytes == SubSeq(data, start + 1, end)
    IN  IF ~ValidUtf8(num_bytes) THEN Err("Invalid utf-8", end)
        ELSE IF ~parse_i64(num_bytes).some THEN ErrFmt("Invalid integer format, ", num_bytes, end)
        ELSE LET c == consume_crlf(data, end)
             IN  IF c.out # "ok" THEN c
                 ELSE Ok(parse_i64(num_bytes), c.offset)

\* A variant of parse_bulk_string that takes the bytes to the next CRLF for
\* the payload, whatever length the header declares.
parse_bulk_string_line(data, offset) ==
    IF Len(data) <= offset \/ data[offset + 1] # 36
    THEN Err("Expected bulk string prefix '$'", offset)
    ELSE LET n == parse_integer(data, offset + 1)
         IN  IF n.out # "ok" THEN n
             ELSE IF LessThan(n.value, 0) THEN Ok(Null, n.offset)
             ELSE LET stops == {i \in n.offset..(Len(data) - 2) :
                                   SubSeq(data, i + 1, i + 2) = CRLF}
                  IN  IF stops = {} THEN Err("Incomplete bulk string data", n.offset)
                      ELSE LET end == CHOOSE i \in stops : \A j \in stops : i <= j
                           IN  Ok(BulkString(SubSeq(data, n.offset + 1, end)), end + 2)

\* parse_bulk_string: '$', the length, that many bytes, CRLF; a negative length
\* is Null.
parse_bulk_string(data, offset) ==
    IF Len(data) <= offset \/ data[offset + 1] # 36
    THEN Err("Expected bulk string prefix '$'", offset)
    ELSE LET n == parse_integer(data, offset + 1)
         IN  IF n.out # "ok" THEN n
             ELSE IF LessThan(n.value, 0) THEN Ok(Null, n.offset)
             ELSE IF n.value.wide \/ Len(data) < n.offset + n.value.v
                  THEN Err("Incomplete bulk string data", n.offset)
             ELSE LET length == n.value.v
                      c == consume_crlf(data, n.offset + length)
                  IN  IF c.out # "ok" THEN c
                      ELSE Ok(BulkString(SubSeq(data, n.offset + 1, n.offset + length)),
                              c.offset)

\* The digits of the least capacity that Vec::with_capacity refuses for every
\* layout of RespValue: isize::MAX / 24 + 1 = 384307168202282326 (a RespValue
\* holds a String, so it has 24 bytes at least).
CapacityLimitDigits == <<51, 56, 52, 51, 48, 55, 49, 54, 56, 50, 48, 50, 50, 56, 50, 51, 50, 54>>

\* Vec::with_capacity(n) panics ("capacity overflow"): n * size_of::<RespValue>()
\* is above isize::MAX.
CapacityOverflow(n) ==
    /\ n.wide
    /\ ~n.neg
    /\ \/ Len(n.digits) > 18
       \/ Len(n.digits) = 18 /\ DigitsLeq(CapacityLimitDigits, n.digits)

\* parse: '*' starts an array of n >= 1 values, each parsed in turn from where
\* the one before it ended; '$' starts a bulk string.
RECURSIVE parse(_, _)
parse(data, offset) ==
    IF Len(data) <= offset THEN Err("Empty data", offset)
    ELSE IF data[offset + 1] = 42
         THEN LET n == parse_integer(data, offset + 1)
                  RECURSIVE Elements(_, _, _)
                  \* for _ in 0..num_elements { elements.push(parse(&data, offset)?) }
                  Elements(left, at, elements) ==
                      IF left = 0 THEN Ok(Array(elements), at)
                      ELSE LET e == parse(data, at)
                           IN  IF e.out # "ok" THEN e
                               ELSE Elements(left - 1, e.offset, Append(elements, e.value))
              IN  IF n.out # "ok" THEN n
                  ELSE IF LessThan(n.value, 1)
                       THEN Err("Expected a command array of length atleast 1", n.offset)
                  ELSE IF CapacityOverflow(n.value) THEN Panic(n.offset)
                  \* A count wider than the buffer: the loop ends at the first
                  \* element that fails, within Len(data) + 1 elements.
                  ELSE Elements(IF n.value.wide THEN Len(data) + 1 ELSE n.value.v,
                                n.offset, <<>>)
    ELSE IF data[offset + 1] = 36 THEN parse_bulk_string(data, offset)
    ELSE Err("Unsupported or invalid RESP prefix", offset)

(***************************************************************************)
(* The inputs of the codec and of the server: values to write and buffers  *)
(* to read.                                                                *)
(***************************************************************************)
\* Most elements of a message that the model writes or reads.
MaxArgs == 2

\* Payloads of bulk strings: empty, "a", the byte 0xFF, "\r\n" and "PING".
Payloads == {<<>>, V1, V2, CRLF, PING}

\* The bytes a client sends for a value: '$', the number of bytes, CRLF, the
\* bytes, CRLF for a bulk string, "$-1\r\n" for Null, and '*', the number of
\* elements, CRLF and the elements for an array.
RECURSIVE Wire(_)
Wire(v) ==
    CASE v.type = "BulkString" -> Dollar \o Itoa(Len(v.bytes)) \o CRLF \o v.bytes \o CRLF
      [] v.type = "Null"       -> Dollar \o Itoa(-1) \o CRLF
      [] v.type = "Array"      ->
             LET RECURSIVE Each(_)
                 Each(es) == IF es = <<>> THEN <<>> ELSE Wire(Head(es)) \o Each(Tail(es))
             IN  Star \o Itoa(Len(v.elems)) \o CRLF \o Each(v.elems)

RECURSIVE Wires(_)
Wires(ms) == IF ms = <<>> THEN <<>> ELSE Wire(Head(ms)) \o Wires(Tail(ms))

\* The sequences of 1 .. n elements of a set.
SeqsUpTo(S, n) == UNION {[1..k -> S] : k \in 1..n}

\* Well-formed messages: arrays of 1 .. MaxArgs bulk strings.
Messages == {Array(es) : es \in SeqsUpTo({BulkString(p) : p \in Payloads}, MaxArgs)}

\* Values to write: arrays of 1 .. MaxArgs bulk strings, Nulls and arrays.
Elements == {BulkString(p) : p \in Payloads}
              \cup {Null, Array(<<BulkString(V1)>>), Array(<<Null>>)}
Values == {Array(es) : es \in SeqsUpTo(Elements, MaxArgs)}

\* A count that no buffer holds: 999999999999999999 (eighteen 9s).
Nines == [i \in 1..18 |-> 57]

\* Buffers that no value parses from, by what is wrong with them.
\* (a) the byte at the cursor is neither '*' nor '$'.
BadPrefix == {<<43, 79, 75>> \o CRLF, <<58, 49>> \o CRLF, <<45, 69>> \o CRLF, <<97>>, CRLF}
\* (b) an array count below 1, at the top or in an element.
BadCount == {Star \o Itoa(0) \o CRLF, Star \o Itoa(-1) \o CRLF,
             Star \o Itoa(1) \o CRLF \o Star \o Itoa(0) \o CRLF,
             Star \o Itoa(2) \o CRLF \o Wire(BulkString(V1)) \o Star \o Itoa(-1) \o CRLF}
\* (c) more elements, or more bytes of a bulk string, than the buffer holds.
Truncated == {Star \o Itoa(1) \o CRLF,
              Star \o Itoa(2) \o CRLF \o Wire(BulkString(V1)),
              Star \o Itoa(1) \o CRLF \o Star \o Itoa(2) \o CRLF \o Wire(BulkString(V1)),
              Star \o Nines \o CRLF,
              Star \o Nines \o CRLF \o Wire(BulkString(V1)),
              Dollar \o Itoa(5) \o CRLF \o V1 \o CRLF,
              Dollar \o Itoa(1) \o CRLF,
              Dollar \o Nines \o CRLF \o V1 \o CRLF,
              Star \o Itoa(1) \o CRLF \o Dollar \o Itoa(4) \o CRLF \o V1 \o CRLF}
\* (d) the payload of a bulk string is not followed by CRLF.
Unterminated == {Dollar \o Itoa(1) \o CRLF \o V1,
                 Dollar \o Itoa(1) \o CRLF \o V1 \o <<13>>,
                 Dollar \o Itoa(1) \o CRLF \o V1 \o V1 \o CRLF,
                 Dollar \o Itoa(1) \o CRLF \o V1 \o <<10, 13>>,
                 Star \o Itoa(1) \o CRLF \o Dollar \o Itoa(0) \o CRLF \o V1 \o CRLF}
\* A bulk string of a negative length, alone and followed by more bytes.
NullBulk == {Dollar \o Itoa(-1) \o CRLF, Dollar \o Itoa(-5) \o CRLF,
             Dollar \o Itoa(-1) \o CRLF \o V1 \o CRLF}
\* A header that is no integer, or has no CRLF.
BadHeader == {Star \o V1 \o CRLF, Dollar \o V2 \o CRLF, Dollar \o CRLF,
              Star \o Itoa(1), Star \o Itoa(1) \o <<13>>, Dollar \o Itoa(1) \o <<10>>}
Malformed == BadPrefix \cup BadCount \cup Truncated \cup Unterminated \cup NullBulk
               \cup BadHeader

\* What a reader finds in its buffer: messages back to back, and then nothing
\* or bytes that are no message.
Received ==
    {[msgs |-> <<m>>, tail |-> <<>>] : m \in Messages}
      \cup {[msgs |-> <<m, Array(<<BulkString(p)>>)>>, tail |-> <<>>] :
               m \in Messages, p \in Payloads}
      \cup {[msgs |-> ms, tail |-> t] :
               ms \in {<<>>, <<Array(<<BulkString(PING)>>)>>}, t \in Malformed \cup {<<>>}}

\* What the server reads from a connection.  Keys "k" and "j", values "a" and
\* "b": all of them ASCII.
K3 == <<106>>
V3 == <<98>>
SetCommands == {Array(<<BulkString(SET), BulkString(k), BulkString(v)>>) :
                   k \in {K1, K3}, v \in {V1, V3}}
GetCommands == {Array(<<BulkString(GET), BulkString(k)>>) : k \in {K1, K3}}
OtherCommands ==
    {Array(<<BulkString(PING)>>),
     Array(<<BulkString(ECHO), BulkString(V1)>>),
     Array(<<BulkString(RPUSH), BulkString(K1), BulkString(V1)>>),
     Array(<<BulkString(LRANGE), BulkString(K1), BulkString(Itoa(0)), BulkString(Itoa(-1))>>),
     Array(<<BulkString(Foo)>>),
     Array(<<BulkString(SET), BulkString(K1), BulkString(V1), BulkString(EX), BulkString(V1)>>)}
\* Values that are no array of bulk strings.
NoCommands ==
    {BulkString(V1), BulkString(PING), Null, Array(<<Null>>),
     Array(<<Array(<<BulkString(PING)>>)>>), Array(<<BulkString(PING), Null>>),
     Array(<<Null, BulkString(PING)>>)}
ServerReceived ==
    {[msgs |-> <<m>>, tail |-> <<>>] :
        m \in SetCommands \cup GetCommands \cup OtherCommands \cup NoCommands}
      \cup {[msgs |-> <<m, n>>, tail |-> <<>>] : m \in SetCommands, n \in GetCommands}
      \cup {[msgs |-> <<Array(<<BulkString(PING)>>), Array(<<BulkString(PING)>>)>>,
             tail |-> <<>>]}
      \cup {[msgs |-> <<>>, tail |-> t] : t \in BadPrefix \cup BadCount \cup Truncated}

(***************************************************************************)
(* The state machine.                                                      *)
(*   data     the store of the CommandExecutor                             *)
(*   now      the reading of SystemTime::now(), in milliseconds            *)
(*   status   "idle", "replied" (visit_array returned `reply` for `cmd`    *)
(*            and the caller has not taken it yet) or "panicked"           *)
(*   cmd      the array of the last call, reply its reply                  *)
(*   pre      the store as it was when the last call started               *)
(*   lastSet  history: for each key, the value argument and the deadline   *)
(*            of the last SET that wrote it, while no push has written it  *)
(*            since                                                        *)
(*   buf      the bytes in the buffer of the reader                        *)
(*   offset   the cursor of parse into buf                                 *)
(*   parsed   the results of the calls of parse on buf so far, each with   *)
(*            the cursor it started from                                   *)
(*   out      the bytes written to the client for the last buffer          *)
(*   sent     history: the messages that a client wrote into buf           *)
(***************************************************************************)
VARIABLES data, now, status, cmd, reply, pre, lastSet, buf, offset, parsed, out, sent

wire == <<buf, offset, parsed, out, sent>>

vars == <<data, now, status, cmd, reply, pre, lastSet, buf, offset, parsed, out, sent>>

Init ==
    /\ data = EmptyData
    /\ now = 0
    /\ status = "idle"
    /\ cmd = <<>>
    /\ reply = Null
    /\ pre = EmptyData
    /\ lastSet = EmptyData
    /\ buf = <<>>
    /\ offset = 0
    /\ parsed = <<>>
    /\ out = <<>>
    /\ sent = <<>>

\* The instant a SET command executed at t names with its option, if any.
SetDeadline(array, t) ==
    IF Len(array) < 4 THEN NoTime
    ELSE IF array[4].bytes = EX
         THEN SomeTime(t + parse_u64(array[5].bytes).v * MillisPerSec)
         ELSE SomeTime(t + parse_u64(array[5].bytes).v)

\* The history of writes after a call: a SET that replied OK records its value
\* argument and deadline, a push that replied its Integer clears the record.
LastSetAfter(array, r, t) ==
    IF r.panic THEN lastSet
    ELSE IF r.reply = SimpleString("OK")
         THEN Insert(lastSet, Text(array, 1),
                     [value |-> array[3].bytes, deadline |-> SetDeadline(array, t)])
    ELSE IF r.reply.type = "Integer" THEN Remove(lastSet, Text(array, 1))
    ELSE lastSet

\* No list of the store is longer than max.
WithinBounds(d, max) ==
    \A k \in DOMAIN d : Len(d[k].value.list) <= max

\* One call of visit_array, run to completion.
Execute(array, max) ==
    /\ status = "idle"
    /\ LET r == visit_array(array, data, now)
       IN  /\ WithinBounds(r.data, max)
           /\ data' = r.data
           /\ status' = IF r.panic THEN "panicked" ELSE "replied"
           /\ reply' = r.reply
           /\ lastSet' = LastSetAfter(array, r, now)
    /\ cmd' = array
    /\ pre' = data
    /\ UNCHANGED <<now, wire>>

\* The caller takes the reply and is ready for the next command.
Respond ==
    /\ status = "replied"
    /\ status' = "idle"
    /\ cmd' = <<>>
    /\ reply' = Null
    /\ pre' = data
    /\ UNCHANGED <<data, now, lastSet, wire>>

\* Time passes between two calls.
Tick ==
    /\ status = "idle"
    /\ \E t \in Instants : t > now /\ now' = t
    /\ UNCHANGED <<data, status, cmd, reply, pre, lastSet, wire>>

Next ==
    \/ \E array \in Commands : Execute(array, MaxLen)
    \/ Respond
    \/ Tick

Spec == Init /\ [][Next]_vars

NextRange ==
    \/ \E array \in RangeCommands : Execute(array, MaxRangeLen)
    \/ Respond

SpecRange == Init /\ [][NextRange]_vars

(***************************************************************************)
(* The codec at work: a value is written with Display, or a client's bytes *)
(* are received, and parse is called on the buffer from cursor 0 and then  *)
(* from where the call before it left the cursor.                          *)
(***************************************************************************)
\* format!("{}", v): the bytes of v are in the buffer.
Format(v) ==
    /\ status = "idle"
    /\ status' = "formatted"
    /\ reply' = v
    /\ buf' = Display(v)
    /\ offset' = 0
    /\ parsed' = <<>>
    /\ sent' = <<>>
    /\ UNCHANGED <<data, now, cmd, pre, lastSet, out>>

\* The bytes of a client are in the buffer.
Receive(r) ==
    /\ status = "idle"
    /\ status' = "received"
    /\ buf' = Wires(r.msgs) \o r.tail
    /\ sent' = r.msgs
    /\ offset' = 0
    /\ parsed' = <<>>
    /\ UNCHANGED <<data, now, cmd, reply, pre, lastSet, out>>

\* The result of parse with the cursor the call started from.
From(start, r) ==
    [from |-> start, out |-> r.out, value |-> r.value, offset |-> r.offset,
     err |-> r.err, arg |-> r.arg]

\* One call of parse(&buf, &mut offset).
Parse ==
    /\ status \in {"formatted", "received"}
    /\ IF parsed = <<>> THEN TRUE
       ELSE parsed[Len(parsed)].out = "ok" /\ offset < Len(buf)
    /\ LET r == parse(buf, offset)
       IN  /\ parsed' = Append(parsed, From(offset, r))
           /\ offset' = r.offset
           /\ status' = IF r.out = "panic" THEN "panicked" ELSE status
    /\ UNCHANGED <<data, now, cmd, reply, pre, lastSet, buf, out, sent>>

\* The buffer is dropped.
Drop ==
    /\ status \in {"formatted", "received"}
    /\ parsed # <<>>
    /\ status' = "idle"
    /\ reply' = Null
    /\ buf' = <<>>
    /\ offset' = 0
    /\ parsed' = <<>>
    /\ sent' = <<>>
    /\ UNCHANGED <<data, now, cmd, pre, lastSet, out>>

NextCodec ==
    \/ \E v \in Values : Format(v)
    \/ \E r \in Received : Receive(r)
    \/ Parse
    \/ Drop

SpecCodec == Init /\ [][NextCodec]_vars

(***************************************************************************)
(* The server (main.rs): handle_client reads a buffer, parses it from      *)
(* cursor 0, executes the command and writes the reply, one buffer after   *)
(* the other on a connection.                                              *)
(***************************************************************************)
\* format!("-ERR {}\r\n", e): "-ERR ".
ErrPrefix == <<45, 69, 82, 82, 32>>

\* One turn of the loop of handle_client on the bytes read.  A panic ends the
\* thread of the connection.
Serve(r) ==
    /\ status = "idle"
    /\ LET raw_data == Wires(r.msgs) \o r.tail
           p == parse(raw_data, 0)
           response == IF p.out = "ok" THEN execute_cmd(p.value, now) ELSE Abort(EmptyData)
       IN  /\ raw_data # <<>>
           /\ buf' = raw_data
           /\ offset' = p.offset
           /\ parsed' = <<From(0, p)>>
           /\ cmd' = IF p.out = "ok" /\ p.value.type = "Array" THEN p.value.elems ELSE <<>>
           /\ IF p.out = "err"
              THEN /\ status' = "replied"
                   /\ reply' = Null
                   /\ out' = ErrPrefix \o Utf8(p.err) \o p.arg \o CRLF
                   /\ UNCHANGED lastSet
              ELSE IF p.out = "panic" \/ response.panic
              THEN /\ status' = "panicked"
                   /\ reply' = Null
                   /\ out' = <<>>
                   /\ UNCHANGED lastSet
              ELSE /\ status' = "replied"
                   /\ reply' = response.reply
                   /\ out' = Display(response.reply)
                   /\ lastSet' = IF p.value.type = "Array"
                                 THEN LastSetAfter(p.value.elems, response, now)
                                 ELSE lastSet
    /\ sent' = r.msgs
    \* The executor of execute_cmd is dropped when it returns.
    /\ UNCHANGED <<data, pre, now>>

\* The loop turns: a new buffer, all zeroes, for the next read.
Again ==
    /\ status = "replied"
    /\ status' = "idle"
    /\ cmd' = <<>>
    /\ reply' = Null
    /\ buf' = <<>>
    /\ offset' = 0
    /\ parsed' = <<>>
    /\ out' = <<>>
    /\ sent' = <<>>
    /\ UNCHANGED <<data, now, pre, lastSet>>

\* stream.read returns Ok(0): the client closed the connection.
Hangup ==
    /\ status = "idle"
    /\ status' = "closed"
    /\ UNCHANGED <<data, now, cmd, reply, pre, lastSet, wire>>

NextServer ==
    \/ \E r \in ServerReceived : Serve(r)
    \/ Again
    \/ Hangup

SpecServer == Init /\ [][NextServer]_vars

(***************************************************************************)
(* Vocabulary of the properties.  A property speaks of the last call:      *)
(* `cmd` was executed on the store `pre` at the instant `now`, and left    *)
(* `reply` and the store `data`, or panicked.                              *)
(***************************************************************************)
Called   == status # "idle"
Returned == status = "replied"

\* The last call was the command `name` with exactly n arguments, all of them
\* BulkStrings.
IsCall(name, n) ==
    /\ Called
    /\ Len(cmd) = n + 1
    /\ \A i \in 1..Len(cmd) : IsBulk(cmd[i])
    /\ to_uppercase(cmd[1].bytes) = name

\* The payload of the i-th argument of the last call, and the key it names.
Arg(i) == cmd[i + 1].bytes

\* What a payload reads as: the payload itself when it is ASCII, and in general
\* the payload with each byte that is no UTF-8 replaced by EF BF BD (U+FFFD).
IsAscii(b) == \A i \in 1..Len(b) : b[i] < 128
RECURSIVE AsText(_)
AsText(b) ==
    IF b = <<>> THEN <<>>
    ELSE IF Head(b) < 128 THEN <<Head(b)>> \o AsText(Tail(b))
    ELSE <<239, 191, 189>> \o AsText(Tail(b))

\* The key of the store that the first argument of the last call names.
KeyOf == AsText(Arg(1))

HoldsString(d, key) == Contains(d, key) /\ d[key].value.kind = "String"
HoldsList(d, key)   == Contains(d, key) /\ d[key].value.kind = "List"

\* The list at key, empty when the key is absent.
ListAt(d, key) == IF Contains(d, key) THEN d[key].value.list ELSE <<>>

\* The last call was a GET of a key whose last write was a SET.
GetAfterSet == IsCall(GET, 1) /\ Contains(lastSet, KeyOf)

(***************************************************************************)
(* C1.  After SET k v with no expiry option, the next GET k with no write  *)
(* to k in between replies BulkString(v); GET k on a store with no entry   *)
(* for k replies Null.                                                     *)
(***************************************************************************)
\* C1 as stated: the reply carries the very bytes v of the SET.
C1_AsStated ==
    /\ (GetAfterSet /\ ~lastSet[KeyOf].deadline.some)
           => (Returned /\ reply = BulkString(lastSet[KeyOf].value))
    /\ (IsCall(GET, 1) /\ ~Contains(pre, KeyOf))
           => (Returned /\ reply = Null)

\* C1 as amended: the reply carries v as the store reads it, which is v itself
\* when v is valid UTF-8 (here: ASCII) and has U+FFFD for each invalid byte
\* otherwise; GET of a key with no entry replies Null and changes nothing.
C1_SetThenGet ==
    /\ (GetAfterSet /\ ~lastSet[KeyOf].deadline.some)
           => /\ Returned
              /\ reply = BulkString(AsText(lastSet[KeyOf].value))
              /\ IsAscii(lastSet[KeyOf].value) => reply = BulkString(lastSet[KeyOf].value)
              /\ data = pre
    /\ (IsCall(GET, 1) /\ ~Contains(pre, KeyOf))
           => (Returned /\ reply = Null /\ data = pre)

\* A GET answered with the value of an earlier SET, while the other key holds
\* an entry too.
C1_Witness ==
    /\ GetAfterSet
    /\ ~lastSet[KeyOf].deadline.some
    /\ lastSet[KeyOf].value = V1
    /\ reply = BulkString(V1)
    /\ Contains(data, AsText(K2))

(***************************************************************************)
(* C2.  After SET k v with EX / PX duration d at time t and no later write *)
(* to k: a GET k before t + d replies BulkString(v) and keeps the entry;   *)
(* a GET k at t + d or later replies Null and the entry is gone.           *)
(***************************************************************************)
\* C2 as stated: before the deadline the reply carries the very bytes v.
C2_AsStated ==
    (GetAfterSet /\ lastSet[KeyOf].deadline.some)
        => IF now < lastSet[KeyOf].deadline.t
           THEN Returned /\ reply = BulkString(lastSet[KeyOf].value)
                         /\ Contains(data, KeyOf)
           ELSE Returned /\ reply = Null /\ ~Contains(data, KeyOf)

\* C2 as amended: before the deadline t + d the reply carries v as the store
\* reads it (v itself when v is valid UTF-8) and the store is unchanged; at the
\* deadline or after it the reply is Null and the store is the one before the
\* call without the entry of k.
C2_Expiry ==
    (GetAfterSet /\ lastSet[KeyOf].deadline.some)
        => IF now < lastSet[KeyOf].deadline.t
           THEN /\ Returned
                /\ reply = BulkString(AsText(lastSet[KeyOf].value))
                /\ IsAscii(lastSet[KeyOf].value) => reply = BulkString(lastSet[KeyOf].value)
                /\ Contains(data, KeyOf)
                /\ data = pre
           ELSE /\ Returned
                /\ reply = Null
                /\ ~Contains(data, KeyOf)
                /\ data = Remove(pre, KeyOf)

\* The first GET at the very deadline of a SET made one second earlier: the
\* entry was still in the store, and the reply is Null.
C2_Witness ==
    /\ GetAfterSet
    /\ lastSet[KeyOf].deadline = SomeTime(MillisPerSec)
    /\ now = MillisPerSec
    /\ Contains(pre, KeyOf)
    /\ pre[KeyOf].expiry_time = SomeTime(MillisPerSec)
    /\ reply = Null
    /\ ~Contains(data, KeyOf)

(***************************************************************************)
(* C3.  When k holds a TextValue, RPUSH k x.. and LPUSH k x.. return an    *)
(* Error reply, without aborting, and leave the entry of k as it was.      *)
(***************************************************************************)
\* The last call was the push `name` of one or more values, all BulkStrings.
IsPush(name) ==
    /\ Called
    /\ Len(cmd) >= 3
    /\ \A i \in 1..Len(cmd) : IsBulk(cmd[i])
    /\ to_uppercase(cmd[1].bytes) = name

\* C3 as stated.
C3_AsStated ==
    ((IsPush(RPUSH) \/ IsPush(LPUSH)) /\ HoldsString(pre, KeyOf))
        => (Returned /\ reply.type = "Error" /\ data = pre)

(***************************************************************************)
(* C4.  When k holds a ListValue, GET k returns an Error reply; when k     *)
(* holds an unexpired TextValue, LRANGE k start end returns an Error       *)
(* reply; both complete normally and leave the store unchanged.            *)
(***************************************************************************)
Unexpired(e) == ~(e.expiry_time.some /\ now >= e.expiry_time.t)

\* The last call was LRANGE with a key and two integers.
IsRange ==
    IsCall(LRANGE, 3) /\ parse_isize(Arg(2)).some /\ parse_isize(Arg(3)).some

\* C4 as stated.
C4_AsStated ==
    /\ (IsCall(GET, 1) /\ HoldsList(pre, KeyOf))
           => (Returned /\ reply.type = "Error" /\ data = pre)
    /\ (IsRange /\ HoldsString(pre, KeyOf) /\ Unexpired(pre[KeyOf]))
           => (Returned /\ reply.type = "Error" /\ data = pre)

(***************************************************************************)
(* C5.  When k is absent or holds the list L, RPUSH k v1 .. vn (n >= 1)    *)
(* leaves at k the list L followed by v1 .. vn, replies Integer(len(L)+n), *)
(* and LRANGE k 0 -1 then returns exactly that list.                       *)
(***************************************************************************)
\* The value arguments of the last push, as sent and as the store reads them.
RawValues  == [i \in 1..(Len(cmd) - 2) |-> cmd[i + 2].bytes]
TextValues == [i \in 1..(Len(cmd) - 2) |-> AsText(cmd[i + 2].bytes)]

AbsentOrList(d, key) == ~Contains(d, key) \/ HoldsList(d, key)

\* LRANGE k 0 -1 on a non-empty list returns the whole list, in order.
WholeListRead ==
    (IsRange /\ Arg(2) = Itoa(0) /\ Arg(3) = Itoa(-1)
             /\ HoldsList(pre, KeyOf) /\ ListAt(pre, KeyOf) # <<>>)
        => /\ Returned
           /\ reply = Array([i \in 1..Len(ListAt(pre, KeyOf)) |->
                                 BulkString(ListAt(pre, KeyOf)[i])])

\* C5 as stated: the list ends with the very bytes v1 .. vn.
C5_AsStated ==
    /\ (IsPush(RPUSH) /\ AbsentOrList(pre, KeyOf))
           => /\ Returned
              /\ HoldsList(data, KeyOf)
              /\ ListAt(data, KeyOf) = ListAt(pre, KeyOf) \o RawValues
              /\ reply = Integer(Len(ListAt(pre, KeyOf)) + Len(RawValues))
    /\ WholeListRead

\* C5 as amended: the list ends with v1 .. vn as the store reads them (each vi
\* itself when it is valid UTF-8); nothing else of the store changes.
C5_RpushAppends ==
    /\ (IsPush(RPUSH) /\ AbsentOrList(pre, KeyOf))
           => /\ Returned
              /\ HoldsList(data, KeyOf)
              /\ ListAt(data, KeyOf) = ListAt(pre, KeyOf) \o TextValues
              /\ (\A i \in 1..Len(RawValues) : IsAscii(RawValues[i]))
                    => ListAt(data, KeyOf) = ListAt(pre, KeyOf) \o RawValues
              /\ reply = Integer(Len(ListAt(pre, KeyOf)) + Len(RawValues))
              /\ \A k \in DOMAIN pre \ {KeyOf} : Contains(data, k) /\ data[k] = pre[k]
    /\ WholeListRead

\* An RPUSH of two different values onto a list that held one element.
C5_Witness ==
    /\ IsPush(RPUSH)
    /\ Returned
    /\ RawValues = <<V1, V2>>
    /\ ListAt(pre, KeyOf) = <<AsText(V2)>>
    /\ ListAt(data, KeyOf) = <<AsText(V2), V1, AsText(V2)>>
    /\ reply = Integer(3)

(***************************************************************************)
(* C6.  When k is absent or holds the list L, LPUSH k v1 .. vn (n >= 1)    *)
(* leaves at k the list vn, .., v1 followed by L and replies               *)
(* Integer(len(L)+n), whether the call creates the list or not.            *)
(***************************************************************************)
Reversed(s) == [i \in 1..Len(s) |-> s[Len(s) - i + 1]]

\* C6 as stated: the list starts with the very bytes vn .. v1.
C6_AsStated ==
    (IsPush(LPUSH) /\ AbsentOrList(pre, KeyOf))
        => /\ Returned
           /\ HoldsList(data, KeyOf)
           /\ ListAt(data, KeyOf) = Reversed(RawValues) \o ListAt(pre, KeyOf)
           /\ reply = Integer(Len(ListAt(pre, KeyOf)) + Len(RawValues))

\* C6 as amended: the list starts with vn .. v1 as the store reads them (each
\* vi itself when it is valid UTF-8); nothing else of the store changes.
C6_LpushPrepends ==
    (IsPush(LPUSH) /\ AbsentOrList(pre, KeyOf))
        => /\ Returned
           /\ HoldsList(data, KeyOf)
           /\ ListAt(data, KeyOf) = Reversed(TextValues) \o ListAt(pre, KeyOf)
           /\ (\A i \in 1..Len(RawValues) : IsAscii(RawValues[i]))
                 => ListAt(data, KeyOf) = Reversed(RawValues) \o ListAt(pre, KeyOf)
           /\ reply = Integer(Len(ListAt(pre, KeyOf)) + Len(RawValues))
           /\ \A k \in DOMAIN pre \ {KeyOf} : Contains(data, k) /\ data[k] = pre[k]

\* An LPUSH of two different values onto a list that held one element.
C6_Witness ==
    /\ IsPush(LPUSH)
    /\ Returned
    /\ RawValues = <<V1, V2>>
    /\ ListAt(pre, KeyOf) = <<V1>>
    /\ ListAt(data, KeyOf) = <<AsText(V2), V1, V1>>
    /\ reply = Integer(3)

(***************************************************************************)
(* C7.  On a non-empty list of length len, LRANGE with a non-negative      *)
(* start >= len and end >= start returns the empty Array.                  *)
(***************************************************************************)
\* The integer arguments of the last LRANGE and the list it read.
Start    == parse_isize(Arg(2)).v
End      == parse_isize(Arg(3)).v
ReadList == ListAt(pre, KeyOf)

\* The last call was LRANGE k start end on a key that holds a non-empty list.
IsRangeOfList == IsRange /\ HoldsList(pre, KeyOf) /\ ReadList # <<>>

\* C7 as stated.
C7_AsStated ==
    (IsRangeOfList /\ Start >= Len(ReadList) /\ End >= Start)
        => (Returned /\ reply = Array(<<>>))

(***************************************************************************)
(* C8.  On a non-empty list of length len, LRANGE k start end returns the  *)
(* elements at indices start_idx .. end_idx inclusive, an index being      *)
(* max(0, len + i) for i < 0 and min(len - 1, i) otherwise, and the empty  *)
(* Array when start_idx > end_idx; start <= -len with end = -1 returns the *)
(* whole list, LRANGE k 2 1 returns empty; the store never changes.        *)
(***************************************************************************)
\* The index the claim gives for the argument i on a list of length len.
ClampedIndex(i, len) ==
    IF i < 0 THEN (IF len + i > 0 THEN len + i ELSE 0)
             ELSE (IF i < len - 1 THEN i ELSE len - 1)

\* The Array of the elements of list l at the 0-based indices a .. b inclusive.
SliceReply(l, a, b) ==
    IF a > b THEN Array(<<>>)
    ELSE Array([j \in 1..(b - a + 1) |-> BulkString(l[a + j])])

WholeReply(l) == Array([j \in 1..Len(l) |-> BulkString(l[j])])

\* The general rule of C8, and that LRANGE leaves the store alone.
ClampedSliceRule ==
    /\ IsRangeOfList
          => /\ Returned
             /\ reply = SliceReply(ReadList, ClampedIndex(Start, Len(ReadList)),
                                    ClampedIndex(End, Len(ReadList)))
             /\ (Start <= 0 - Len(ReadList) /\ End = -1) => reply = WholeReply(ReadList)
    /\ IsCall(LRANGE, 3) => data = pre

\* C8 as stated: LRANGE k 2 1 is empty on every non-empty list.
C8_AsStated ==
    /\ ClampedSliceRule
    /\ (IsRangeOfList /\ Start = 2 /\ End = 1) => reply = Array(<<>>)

\* C8 as amended: LRANGE k 2 1 is empty on a list of three or more elements; on
\* a list of one or two elements both indices clamp to len - 1 and the reply is
\* the last element alone.
C8_ClampedSlice ==
    /\ ClampedSliceRule
    /\ (IsRangeOfList /\ Start = 2 /\ End = 1)
          => reply = IF Len(ReadList) >= 3 THEN Array(<<>>)
                     ELSE Array(<<BulkString(ReadList[Len(ReadList)])>>)

\* LRANGE k -2 1 on a list of three different-ended elements: the middle one
\* alone, a proper slice picked by a negative start and a positive end.
C8_Witness ==
    /\ IsRangeOfList
    /\ Returned
    /\ Len(ReadList) = 3
    /\ ReadList[1] # ReadList[2]
    /\ Start = -2
    /\ End = 1
    /\ reply = Array(<<BulkString(ReadList[2])>>)
    /\ Contains(data, AsText(K2))

(***************************************************************************)
(* C9.  A call either applies its command in full or, when it returns an   *)
(* Error reply, leaves the store as it was, also when the invalid element  *)
(* of a push follows valid ones.                                           *)
(***************************************************************************)
\* The last call was the push `name` with a key and any number of elements.
IsPushCall(name) ==
    /\ Called
    /\ Len(cmd) >= 2
    /\ IsBulk(cmd[1]) /\ IsBulk(cmd[2])
    /\ to_uppercase(cmd[1].bytes) = name

\* An Error reply, and a panic too, leaves the store untouched; a push that
\* replies its Integer has added every one of its elements to the list of its
\* key and touched no other key; a SET that replies OK has written its key and
\* touched no other key.
C9_Atomic ==
    /\ (Returned /\ reply.type = "Error") => data = pre
    /\ status = "panicked" => data = pre
    /\ ((IsPushCall(RPUSH) \/ IsPushCall(LPUSH)) /\ Returned /\ reply.type = "Integer")
          => /\ Len(ListAt(data, KeyOf)) = Len(ListAt(pre, KeyOf)) + (Len(cmd) - 2)
             /\ reply.int = Len(ListAt(data, KeyOf))
             /\ \A k \in DOMAIN pre \ {KeyOf} : Contains(data, k) /\ data[k] = pre[k]
    /\ (Returned /\ reply = SimpleString("OK"))
          => /\ HoldsString(data, KeyOf)
             /\ data[KeyOf].value.s = AsText(Arg(2))
             /\ \A k \in DOMAIN pre \ {KeyOf} : Contains(data, k) /\ data[k] = pre[k]

\* An RPUSH whose second element is no BulkString, on a key that holds a list:
\* the reply is an Error and the valid first element was not pushed.
C9_Witness ==
    /\ Returned
    /\ Len(cmd) = 4
    /\ cmd[1] = BulkString(RPUSH)
    /\ IsBulk(cmd[3])
    /\ ~IsBulk(cmd[4])
    /\ HoldsList(pre, AsText(cmd[2].bytes))
    /\ reply.type = "Error"
    /\ data = pre

(***************************************************************************)
(* C10.  A recognised command with too few arguments, or LRANGE with a     *)
(* start or end that is no integer, returns an Error reply; the call never *)
(* panics and the store is unchanged.                                      *)
(***************************************************************************)
\* The last call named `name` and had n elements, all BulkStrings.
IsShort(name, n) ==
    /\ Called
    /\ Len(cmd) = n
    /\ \A i \in 1..Len(cmd) : IsBulk(cmd[i])
    /\ to_uppercase(cmd[1].bytes) = name

TooFewArguments ==
    \/ IsShort(ECHO, 1)
    \/ IsShort(GET, 1)
    \/ IsShort(SET, 1) \/ IsShort(SET, 2)
    \/ IsShort(RPUSH, 1) \/ IsShort(RPUSH, 2)
    \/ IsShort(LPUSH, 1) \/ IsShort(LPUSH, 2)
    \/ IsShort(LRANGE, 1) \/ IsShort(LRANGE, 2) \/ IsShort(LRANGE, 3)

NonIntegerIndex ==
    IsShort(LRANGE, 4) /\ (~parse_isize(Arg(2)).some \/ ~parse_isize(Arg(3)).some)

\* C10 as stated.
C10_AsStated ==
    (TooFewArguments \/ NonIntegerIndex)
        => (Returned /\ reply.type = "Error" /\ data = pre)

(***************************************************************************)
(* C11.  SET k v followed by an option: when the option name is not        *)
(* exactly EX or PX, or its number is missing or is no non-negative        *)
(* base-10 integer, the call returns an Error reply without aborting and   *)
(* the entry of k is as it was; only a well-formed EX n / PX n stores v    *)
(* with the expiry now + n seconds / milliseconds.                         *)
(***************************************************************************)
\* The last call was SET with a key, a value and at least one more element.
IsSetWithOption ==
    /\ Called
    /\ Len(cmd) >= 4
    /\ cmd[1] = BulkString(SET)
    /\ IsBulk(cmd[2]) /\ IsBulk(cmd[3])

\* The option of the last call is EX n or PX n with n of decimal digits only.
WellFormedOption ==
    /\ Len(cmd) = 5
    /\ IsBulk(cmd[4]) /\ cmd[4].bytes \in {EX, PX}
    /\ IsBulk(cmd[5]) /\ AllDigits(cmd[5].bytes)

\* The expiry that the option of the last call asks for, in milliseconds.
OptionExpiry ==
    IF Len(cmd) < 5 THEN NoTime
    ELSE IF cmd[4].bytes = EX THEN SomeTime(now + DigitsValue(cmd[5].bytes, 0) * 1000)
    ELSE SomeTime(now + DigitsValue(cmd[5].bytes, 0))

\* C11 as stated.
C11_AsStated ==
    IsSetWithOption
        => IF WellFormedOption
           THEN /\ Returned
                /\ reply = SimpleString("OK")
                /\ HoldsString(data, KeyOf)
                /\ data[KeyOf].value.s = AsText(Arg(2))
                /\ data[KeyOf].expiry_time = OptionExpiry
           ELSE /\ Returned
                /\ reply.type = "Error"
                /\ data = pre

(***************************************************************************)
(* C12.  SET k v on any prior state of k (absent, a string, a list, with   *)
(* or without expiry, expired or not) replies OK and leaves k holding the  *)
(* string v, with the expiry now + duration when EX / PX is given and none *)
(* otherwise; nothing of the prior entry survives and no other key changes.*)
(***************************************************************************)
\* The last call was a SET of a key and a value, alone or with a well-formed
\* option.
IsValidSet == IsCall(SET, 2) \/ (IsCall(SET, 4) /\ WellFormedOption)

\* The store after the call is the store before it with the entry of k replaced
\* by the string v (v as the store reads it: text) and the expiry of the option.
C12_SetReplaces ==
    IsValidSet
        => /\ Returned
           /\ reply = SimpleString("OK")
           /\ DOMAIN data = DOMAIN pre \cup {KeyOf}
           /\ data[KeyOf] = [value |-> [kind |-> "String", s |-> AsText(Arg(2)), list |-> <<>>],
                             expiry_time |-> OptionExpiry]
           /\ \A k \in DOMAIN pre \ {KeyOf} : data[k] = pre[k]

\* A SET with no option of a key that held a string with an expiry: the new
\* entry has no expiry.
C12_Witness ==
    /\ IsCall(SET, 2)
    /\ Returned
    /\ HoldsString(pre, KeyOf)
    /\ pre[KeyOf].expiry_time.some
    /\ pre[KeyOf].value.s # AsText(Arg(2))
    /\ ~data[KeyOf].expiry_time.some
    /\ data[KeyOf].value.s = AsText(Arg(2))

(***************************************************************************)
(* C13.  A key whose expiry is at or before the current time is absent for *)
(* every read, while its entry is still in the store: GET replies Null and *)
(* LRANGE replies the empty Array, whatever kind the expired entry holds.  *)
(***************************************************************************)
\* The key of the last call held, when the call started, an entry whose expiry
\* had been reached.
ExpiredBefore ==
    /\ Contains(pre, KeyOf)
    /\ pre[KeyOf].expiry_time.some
    /\ now >= pre[KeyOf].expiry_time.t

\* The last call was LRANGE with a key and two integers.
IsIntegerRange ==
    IsCall(LRANGE, 3) /\ parse_isize(Arg(2)).some /\ parse_isize(Arg(3)).some

\* C13 as stated.
C13_AsStated ==
    /\ (IsCall(GET, 1) /\ ExpiredBefore) => (Returned /\ reply = Null)
    /\ (IsIntegerRange /\ ExpiredBefore) => (Returned /\ reply = Array(<<>>))

(***************************************************************************)
(* C14.  A command array whose first element is a BulkString that names no *)
(* supported command after uppercasing, with any number of arguments,      *)
(* returns Error("Unknown command: <uppercased name>") and leaves the      *)
(* store unchanged.                                                        *)
(***************************************************************************)
Supported == {PING, ECHO, SET, GET, RPUSH, LPUSH, LRANGE}

\* The name of the last call in upper case.
UpperName == [i \in 1..Len(AsText(cmd[1].bytes)) |->
                 IF AsText(cmd[1].bytes)[i] \in 97..122
                 THEN AsText(cmd[1].bytes)[i] - 32
                 ELSE AsText(cmd[1].bytes)[i]]

NamesNoCommand ==
    /\ Called
    /\ Len(cmd) >= 1
    /\ IsBulk(cmd[1])
    /\ UpperName \notin Supported

C14_UnknownCommand ==
    NamesNoCommand
        => /\ Returned
           /\ reply = [type |-> "Error", text |-> "Unknown command: ", bytes |-> UpperName,
                       int |-> 0, elems |-> <<>>]
           /\ data = pre

\* "foo" with two arguments, on a store that holds an entry: the Error names
\* FOO.
C14_Witness ==
    /\ Returned
    /\ Len(cmd) = 3
    /\ cmd[1] = BulkString(LowerFoo)
    /\ reply.type = "Error"
    /\ reply.bytes = Foo
    /\ data # EmptyData
    /\ data = pre

(***************************************************************************)
(* C15.  In every state of the store, PING replies SimpleString PONG and   *)
(* ECHO x replies BulkString(x), byte for byte; each call of either gives  *)
(* the same reply and leaves the store as it was.                          *)
(***************************************************************************)
C15_PingEcho ==
    /\ IsCall(PING, 0) => (Returned /\ reply = SimpleString("PONG") /\ data = pre)
    /\ IsCall(ECHO, 1) => (Returned /\ reply = BulkString(Arg(1)) /\ data = pre)

\* An ECHO of the byte 0xFF, which is no UTF-8, on a store that holds an entry.
C15_Witness ==
    /\ IsCall(ECHO, 1)
    /\ Returned
    /\ Arg(1) = K2
    /\ reply = BulkString(K2)
    /\ data # EmptyData

(***************************************************************************)
(* C16.  A parsed value that is not an Array of at least one element whose *)
(* elements are all BulkStrings (a BulkString or a Null at the top, an     *)
(* array whose first element is Null or an Array) makes the execution of   *)
(* the command return an Error reply: it never aborts and never returns a  *)
(* reply that is no Error.                                                 *)
(***************************************************************************)
\* The server parsed a value from the last buffer it read.
ServedValue ==
    /\ status \in {"replied", "panicked"}
    /\ parsed # <<>>
    /\ parsed[1].out = "ok"

IsCommandArray(v) ==
    /\ v.type = "Array"
    /\ Len(v.elems) >= 1
    /\ \A i \in 1..Len(v.elems) : IsBulk(v.elems[i])

\* C16 as stated.
C16_AsStated ==
    (ServedValue /\ ~IsCommandArray(parsed[1].value))
        => (Returned /\ reply.type = "Error")

(***************************************************************************)
(* C17.  For every value v that the parser accepts (a non-empty Array of   *)
(* BulkStrings of any bytes, Nulls and such Arrays), parse of the bytes    *)
(* written for v, from cursor 0, returns v and leaves the cursor at the    *)
(* end of the bytes; the length written for a BulkString is the number of  *)
(* payload bytes written.                                                  *)
(***************************************************************************)
\* The bytes before the payload of the only element b of the written value, a
\* BulkString: "*1\r\n", '$', the length of b, CRLF.
SingleHeader(b) == Star \o Itoa(1) \o CRLF \o Dollar \o Itoa(Len(b)) \o CRLF

\* C17 as stated.
C17_AsStated ==
    /\ (status = "formatted" /\ parsed # <<>>)
          => /\ parsed[1].out = "ok"
             /\ parsed[1].value = reply
             /\ parsed[1].offset = Len(buf)
    /\ (status = "formatted" /\ Len(reply.elems) = 1 /\ IsBulk(reply.elems[1]))
          => Len(buf) - Len(SingleHeader(reply.elems[1].bytes)) - Len(CRLF)
                 = Len(reply.elems[1].bytes)

(***************************************************************************)
(* C18.  Parsing a well-formed message, '*n' CRLF and n >= 1 bulk strings, *)
(* from a cursor returns the Array of exactly these n BulkStrings in wire  *)
(* order and moves the cursor to the first byte after the message, so that *)
(* a second message in the same buffer parses from there to its own value. *)
(***************************************************************************)
\* The cursor after the first i messages that the client wrote.
EndOfMessage(i) == Len(Wires(SubSeq(sent, 1, i)))

C18_ParseAdvances ==
    \A i \in 1..Len(parsed) :
        i <= Len(sent)
            => /\ parsed[i].out = "ok"
               /\ parsed[i].value = sent[i]
               /\ parsed[i].from = EndOfMessage(i - 1)
               /\ parsed[i].offset = EndOfMessage(i)

\* Two messages in one buffer, the first of two bulk strings that hold "\r\n"
\* and the byte 0xFF: both are parsed and the cursor is at the end.
C18_Witness ==
    /\ Len(sent) = 2
    /\ Len(parsed) = 2
    /\ sent[1].elems = <<BulkString(CRLF), BulkString(V2)>>
    /\ parsed[1].value = sent[1]
    /\ parsed[2].value = sent[2]
    /\ parsed[2].from = Len(Wire(sent[1]))
    /\ offset = Len(buf)

(***************************************************************************)
(* C19.  parse returns an error, never a value, for a buffer that at the   *)
(* cursor (a) starts with a byte other than '*' and '$', (b) declares an   *)
(* array count below 1 at any level, (c) declares more elements or more    *)
(* bytes than it holds, or (d) has a payload not followed by CRLF; a bulk  *)
(* string of a negative length parses to Null and consumes its header only.*)
(***************************************************************************)
\* The bytes of the buffer after the messages that the client wrote, and the
\* result of the call of parse that started there.
Rest == SubSeq(buf, EndOfMessage(Len(sent)) + 1, Len(buf))
TailParsed == status \in {"received", "panicked"} /\ Len(parsed) = Len(sent) + 1
TailResult == parsed[Len(sent) + 1]

\* The end of the first line of a sequence of bytes: the bytes up to its first
\* '\n'.
HeaderEnd(b) == CHOOSE i \in 1..Len(b) : b[i] = 10 /\ \A j \in 1..(i - 1) : b[j] # 10

\* C19 as stated.
C19_AsStated ==
    /\ (TailParsed /\ Rest \in BadPrefix \cup BadCount \cup Truncated \cup Unterminated)
          => TailResult.out = "err"
    /\ (TailParsed /\ Rest \in NullBulk)
          => /\ TailResult.out = "ok"
             /\ TailResult.value = Null
             /\ TailResult.offset = TailResult.from + HeaderEnd(Rest)

(***************************************************************************)
(* C20.  On a connection the store outlives a command: a SET k v followed  *)
(* by a GET k on the same connection, before any expiry, is answered with  *)
(* BulkString(v).                                                          *)
(***************************************************************************)
\* C20 as stated: the GET that follows the SET of its key (with no option, and
\* no push of the key in between) is answered with the value of the SET.
C20_AsStated ==
    (GetAfterSet /\ ~lastSet[KeyOf].deadline.some)
        => (Returned /\ reply = BulkString(lastSet[KeyOf].value)
                     /\ out = Wire(BulkString(lastSet[KeyOf].value)))

(***************************************************************************)
(* C21.  When one read delivers several complete commands back to back,    *)
(* the loop of the connection parses each of them in order, moving the     *)
(* cursor until the buffer is exhausted or a parse fails, executes each    *)
(* and writes one reply per command in the same order: no complete command *)
(* of the buffer is left unexecuted or unanswered.                         *)
(***************************************************************************)
\* The server has dealt with a buffer that held complete commands only.
ServedCommands ==
    /\ status = "replied"
    /\ sent # <<>>
    /\ \A i \in 1..Len(sent) : IsCommandArray(sent[i])
    /\ buf = Wires(sent)

\* The reply that PING gets on the wire: "+PONG\r\n".
Pong == <<43, 80, 79, 78, 71>> \o CRLF

\* C21 as stated: every command of the buffer was parsed, in order, up to the
\* end of the buffer, and two PINGs in one buffer get two PONGs.
C21_AsStated ==
    ServedCommands
        => /\ Len(parsed) = Len(sent)
           /\ \A i \in 1..Len(parsed) : parsed[i].value = sent[i]
           /\ offset = Len(buf)
           /\ (\A i \in 1..Len(sent) : sent[i] = Array(<<BulkString(PING)>>))
                  => out = [i \in 1..(Len(sent) * Len(Pong)) |->
                               Pong[((i - 1) % Len(Pong)) + 1]]

(***************************************************************************)
(* C22.  After any sequence of commands that return normally, every index  *)
(* that LRANGE reads lies in [0, len - 1] of the list it reads: for every  *)
(* list of the store, the list of no element that LPUSH k with no value    *)
(* creates included, and all start and end, LRANGE returns an Array with   *)
(* no access out of bounds (the empty Array for a list of no element).     *)
(***************************************************************************)
\* C22 as stated: LRANGE on a key that holds a list returns an Array, each of
\* whose elements is one of the list, and the empty Array for the empty list.
C22_AsStated ==
    (IsRange /\ HoldsList(pre, KeyOf))
        => /\ Returned
           /\ reply.type = "Array"
           /\ \A i \in 1..Len(reply.elems) :
                  \E j \in 1..Len(ReadList) : reply.elems[i] = BulkString(ReadList[j])
           /\ ReadList = <<>> => reply = Array(<<>>)

=============================================================================
